---- MODULE Spec2Model ----
(***************************************************************************)
(* GridFinder::analyze (src/GridFinder.h) and its callers.                 *)
(*                                                                         *)
(* Coordinates are integers (multiples of one length unit).  A C++ double  *)
(* is modelled as an exact rational [n, d] in lowest terms with d > 0,     *)
(* extended with the IEEE special values a division by zero produces:      *)
(* d = 0 and n = 0 is NaN, d = 0 and n = 1 or -1 is +Inf or -Inf.          *)
(* Arithmetic is exact: the rounding error of binary floating point is     *)
(* not modelled, the propagation of NaN and the comparisons with NaN are.  *)
(*                                                                         *)
(* The one place where a double is itself a whole number of units is the   *)
(* subnormal range, where the unit is the smallest positive double,        *)
(* 2^-1074: there every length the code computes is rounded to the nearest *)
(* whole unit, ties to even, and a quotient can round to zero.  A caller   *)
(* whose samples are in that range has lat.kind = "subnormal".             *)
(***************************************************************************)
EXTENDS Integers, Sequences, FiniteSets, TLC

VARIABLES
    points,     \* the caller's vector of (x, y) pairs, in the caller's order
    tol,        \* toleranceFraction of the last call
    pres,       \* presenceEpsilonFraction of the last call
    mrg,        \* mergeStepFraction of the last call
    result,     \* the Result the last call returned
    pc,         \* the caller's position
    saved,      \* an earlier call kept by the caller: its input, parameters, result
    lat,        \* how the caller's input was produced (a lattice and what was done to it)
    ncalls,     \* the number of calls of analyze made so far
    argv,       \* flatnessScan's arguments after the program name
    file,       \* the input file: its lines, or NoFile when it cannot be opened
    ncoord,     \* readPoints' parameter n
    lineNum,    \* readPoints' lineNum: the lines read so far
    pointsRead, \* readPoints' vector<Point> points, then main's
    outname,    \* main's outname
    outfile,    \* the output ROOT file: whether it was created, the objects in it
    messages,   \* what was printed on std::cerr
    status,     \* the exit status of the process, Running while it runs
    fitted      \* the plane fit has been made

\* the state of flatnessScan and readPoints
scan == <<argv, file, ncoord, lineNum, pointsRead, outname, outfile, messages,
          status, fitted>>

vars == <<points, tol, pres, mrg, result, pc, saved, lat, ncalls, scan>>

Running == -1
NoFile == [readable |-> FALSE, lines |-> <<>>]
NoOutput ==
    [created |-> FALSE, objects |-> {}, open |-> FALSE, log |-> <<>>, bins |-> {}]

\* no run of flatnessScan or readPoints: the caller has its samples already
NoScan ==
    /\ argv = <<>>
    /\ file = NoFile
    /\ ncoord = 4
    /\ lineNum = 0
    /\ pointsRead = <<>>
    /\ outname = <<>>
    /\ outfile = NoOutput
    /\ messages = {}
    /\ status = Running
    /\ fitted = FALSE

NoCall == [called |-> FALSE]
NoLattice == [kind |-> "free"]

\* the call the caller has just made
ThisCall ==
    [called |-> TRUE, points |-> points, tol |-> tol, pres |-> pres, mrg |-> mrg,
     result |-> result, seq |-> ncalls]

----------------------------------------------------------------------------
(* double arithmetic *)

Abs(a) == IF a < 0 THEN -a ELSE a

Sign(a) == IF a < 0 THEN -1 ELSE IF a > 0 THEN 1 ELSE 0

RECURSIVE GCD(_, _)
GCD(a, b) == IF b = 0 THEN a ELSE GCD(b, a % b)

\* the double n/d
Rat(n, d) ==
    IF d = 0 THEN [n |-> Sign(n), d |-> 0]
    ELSE LET g == GCD(Abs(n), Abs(d))
         IN  [n |-> Sign(d) * (n \div g), d |-> Abs(d) \div g]

FromInt(i) == [n |-> i, d |-> 1]

NaN == [n |-> 0, d |-> 0]

IsNaN(a) == a.d = 0 /\ a.n = 0

IsFinite(a) == a.d > 0

\* a / b
RDiv(a, b) ==
    IF IsNaN(a) \/ IsNaN(b) THEN NaN
    ELSE IF ~IsFinite(a) THEN (IF IsFinite(b) THEN Rat(a.n * (IF b.n < 0 THEN -1 ELSE 1), 0) ELSE NaN)
    ELSE IF ~IsFinite(b) THEN FromInt(0)
    ELSE Rat(a.n * b.d, a.d * b.n)

\* a * b
RMul(a, b) ==
    IF IsNaN(a) \/ IsNaN(b) THEN NaN
    ELSE IF IsFinite(a) /\ IsFinite(b) THEN Rat(a.n * b.n, a.d * b.d)
    ELSE Rat(Sign(a.n) * Sign(b.n), 0)

\* a < b; false when either is NaN
RLess(a, b) ==
    /\ ~IsNaN(a)
    /\ ~IsNaN(b)
    /\ IF IsFinite(a) /\ IsFinite(b) THEN a.n * b.d < b.n * a.d
       ELSE IF IsFinite(a) THEN b.n > 0
       ELSE IF IsFinite(b) THEN a.n < 0
       ELSE a.n < b.n

\* std::fabs
RAbs(a) == [n |-> Abs(a.n), d |-> a.d]

\* std::min(a, b): b when b < a, else a
RMin(a, b) == IF RLess(b, a) THEN b ELSE a

\* std::round: to the nearest integer, halves away from zero; NaN and Inf stay
RRound(a) ==
    IF ~IsFinite(a) THEN a
    ELSE FromInt(Sign(a.n) * ((2 * Abs(a.n) + a.d) \div (2 * a.d)))

\* the nearest whole number to the finite a, ties to the even one
RoundEven(a) ==
    LET q == a.n \div a.d
        r == a.n - q * a.d
    IN  IF 2 * r < a.d THEN q
        ELSE IF 2 * r > a.d THEN q + 1
        ELSE IF q % 2 = 0 THEN q ELSE q + 1

\* the caller's coordinates are whole multiples of the smallest positive double
UnitIsDenormMin == lat.kind = "subnormal"

\* the length a as the double that receives it holds it
Stored(a) ==
    IF UnitIsDenormMin /\ IsFinite(a) THEN FromInt(RoundEven(a)) ELSE a

\* (int)NaN is undefined: cvttsd2si gives INT_MIN, fcvtzs gives 0
NanInts == {-2147483647 - 1, 0}

\* double -> int, the values the conversion can give: the truncation of a finite
\* value; undefined for NaN and Inf
ToInt(a) ==
    IF ~IsFinite(a) THEN NanInts
    ELSE {Sign(a.n) * (Abs(a.n) \div a.d)}

----------------------------------------------------------------------------
(* GridFinder::analyze *)

\* the initialisers with regularX and regularY starting true
DefaultResultRegular ==
    [regularX |-> TRUE, regularY |-> TRUE,
     dx |-> FromInt(0), dy |-> FromInt(0),
     Nx |-> 0, Ny |-> 0,
     xMin |-> 0, xMax |-> 0, yMin |-> 0, yMax |-> 0,
     missingPoints |-> 0]

\* struct Result, as its default member initialisers leave it
ZeroedResult ==
    [regularX |-> FALSE, regularY |-> FALSE,
     dx |-> FromInt(0), dy |-> FromInt(0),
     Nx |-> 0, Ny |-> 0,
     xMin |-> 0, xMax |-> 0, yMin |-> 0, yMax |-> 0,
     missingPoints |-> 0]

\* static Result result; the object of the last call, with what that call left in it
StaticResult == result

\* Result result; a new object in every call
DefaultResult == ZeroedResult

\* the guard one sample too low
TooFewSamplesBelow3(pts) == Len(pts) < 3

\* if (points.size() < 4) return result;
TooFewSamples(pts) == Len(pts) < 4

\* xs.push_back(p.first)
Xs(pts) == [i \in 1..Len(pts) |-> pts[i][1]]

\* every sample on the X line of the first sample gives the Y of the first sample
YsOfFirstOnItsLine(pts) ==
    [i \in 1..Len(pts) |-> IF pts[i][1] = pts[1][1] THEN pts[1][2] ELSE pts[i][2]]

\* ys.push_back(p.second)
Ys(pts) == [i \in 1..Len(pts) |-> pts[i][2]]

\* the two sorted runs a and b as one sorted run
RECURSIVE MergeRuns(_, _)
MergeRuns(a, b) ==
    IF a = <<>> THEN b
    ELSE IF b = <<>> THEN a
    ELSE LET mid == (Len(a) + 1) \div 2
             k   == Cardinality({j \in 1..Len(b) : b[j] < a[mid]})
         IN  MergeRuns(SubSeq(a, 1, mid - 1), SubSeq(b, 1, k))
                 \o <<a[mid]>>
                 \o MergeRuns(SubSeq(a, mid + 1, Len(a)), SubSeq(b, k + 1, Len(b)))

\* the axis left in the order of the samples
Unsorted(v) == v

\* std::sort, ascending
RECURSIVE Sort(_)
Sort(v) ==
    IF Len(v) <= 1 THEN v
    ELSE LET mid == Len(v) \div 2
         IN  MergeRuns(Sort(SubSeq(v, 1, mid)), Sort(SubSeq(v, mid + 1, Len(v))))

\* d.push_back(v[i] - v[i-1]) for i = 1 .. size-1
Diffs(v) == [i \in 1..(Len(v) - 1) |-> v[i + 1] - v[i]]

\* d[lo] + ... + d[hi]
RECURSIVE SumRange(_, _, _)
SumRange(d, lo, hi) ==
    IF lo > hi THEN 0
    ELSE IF lo = hi THEN d[lo]
    ELSE LET mid == (lo + hi) \div 2
         IN  SumRange(d, lo, mid) + SumRange(d, mid + 1, hi)

\* std::accumulate(d.begin(), d.end(), 0.0)
Accumulate(d) == SumRange(d, 1, Len(d))

\* the sum of the differences divided by one less than their number
estimateMeanStepOneLess(v) ==
    IF Len(v) < 3 THEN FromInt(0)
    ELSE LET d == Diffs(v)
         IN  Stored(RDiv(FromInt(Accumulate(d)), FromInt(Len(d) - 1)))

estimateMeanStep(v) ==
    IF Len(v) < 2 THEN FromInt(0)
    ELSE LET d == Diffs(v) IN Stored(RDiv(FromInt(Accumulate(d)), FromInt(Len(d))))

\* no tolerance: only equal values merge
MergeEpsZero(step, mergeStepFraction) == FromInt(0)

\* double eps = std::fabs(step) * mergeStepFraction;
MergeEps(step, mergeStepFraction) == Stored(RMul(RAbs(step), mergeStepFraction))

\* if (std::fabs(val - merged.back()) > eps) merged.push_back(val);
KeepValue(val, back, eps) == RLess(eps, FromInt(Abs(val - back)))

\* each value compared with the value before it in v, not with merged.back()
MergeRangeByNeighbour(v, lo, hi, back, eps) ==
    LET far == {i \in lo..hi :
                   KeepValue(v[i], IF i = 1 THEN back ELSE v[i - 1], eps)}
    IN  [k \in 1..Cardinality(far) |->
            v[CHOOSE i \in far : Cardinality({j \in far : j < i}) = k - 1]]

\* the values the loop appends while it runs over v[lo], ..., v[hi], when
\* merged.back() is back as it reaches v[lo]
RECURSIVE MergeRange(_, _, _, _, _)
MergeRange(v, lo, hi, back, eps) ==
    IF lo > hi THEN <<>>
    ELSE IF lo = hi THEN (IF KeepValue(v[lo], back, eps) THEN <<v[lo]>> ELSE <<>>)
    ELSE LET mid  == (lo + hi) \div 2
             left == MergeRange(v, lo, mid, back, eps)
         IN  left \o MergeRange(v, mid + 1, hi,
                                IF left = <<>> THEN back ELSE left[Len(left)], eps)

\* for (double val : v): every element of v, the first included
MergeLoop(v, merged, eps) ==
    merged \o MergeRange(v, 1, Len(v), merged[Len(merged)], eps)

mergeClose(v, step, mergeStepFraction) ==
    IF v = <<>> THEN <<>>
    ELSE MergeLoop(v, <<v[1]>>, MergeEps(step, mergeStepFraction))

\* if (result.Nx < 2 || result.Ny < 2) return result;
AxisCollapsed(nx, ny) == nx < 2 \/ ny < 2

\* |d[lo] - mean| + ... + |d[hi] - mean|, in units of 1 / mean.d
RECURSIVE SpreadRange(_, _, _, _)
SpreadRange(d, mean, lo, hi) ==
    IF lo > hi THEN 0
    ELSE IF lo = hi THEN Abs(d[lo] * mean.d - mean.n)
    ELSE LET mid == (lo + hi) \div 2
         IN  SpreadRange(d, mean, lo, mid) + SpreadRange(d, mean, mid + 1, hi)

\* spread += std::fabs(di - mean), over d, in units of 1 / mean.d
SpreadSum(d, mean) == SpreadRange(d, mean, 1, Len(d))

\* the first gap for the mean of the gaps
MeanIsFirstGap(d) == FromInt(d[1])

\* the sum divided by v.size() instead of d.size()
MeanOverSize(d) == Stored(RDiv(FromInt(Accumulate(d)), FromInt(Len(d) + 1)))

\* double mean = std::accumulate(d.begin(), d.end(), 0.0) / d.size();
MeanOf(d) == Stored(RDiv(FromInt(Accumulate(d)), FromInt(Len(d))))

\* std::make_pair(mean, spread / d.size())
spacingStats(v) ==
    LET d      == Diffs(v)
        mean   == MeanOf(d)
        spread == IF d = <<>> THEN FromInt(0) ELSE Rat(SpreadSum(d, mean), mean.d)
    IN  <<mean, Stored(RDiv(spread, FromInt(Len(d))))>>

\* the comparison with <= for <
IsRegularOrEqual(spread, mean, toleranceFraction) ==
    ~RLess(toleranceFraction, RDiv(spread, mean))

\* the comparison turned round
IsRegularFlipped(spread, mean, toleranceFraction) ==
    RLess(toleranceFraction, RDiv(spread, mean))

\* (dxSpread / dx < toleranceFraction)
IsRegular(spread, mean, toleranceFraction) ==
    RLess(RDiv(spread, mean), toleranceFraction)

\* the test on X alone
NearInX(p, x, y, eps) == RLess(FromInt(Abs(p[1] - x)), eps)

\* std::fabs(p.first - x) < eps && std::fabs(p.second - y) < eps
Near(p, x, y, eps) ==
    /\ RLess(FromInt(Abs(p[1] - x)), eps)
    /\ RLess(FromInt(Abs(p[2] - y)), eps)

\* the scan over the caller's points for one intersection
Found(pts, x, y, eps) == \E k \in 1..Len(pts) : Near(pts[k], x, y, eps)

\* for (double x : xs) for (double y : ys) if (!found) ++missing;
CountMissing(pts, xs, ys, eps) ==
    Cardinality({ij \in (1..Len(xs)) \X (1..Len(ys)) :
                    ~Found(pts, xs[ij[1]], ys[ij[2]], eps)})

\* the smallest of v[2], ..., v[n]: the search begun one element late
MinOfAllButFirst(v) ==
    IF Len(v) = 1 THEN v[1]
    ELSE CHOOSE m \in {v[i] : i \in 2..Len(v)} : \A i \in 2..Len(v) : m <= v[i]

\* the largest of v[1], ..., v[n - 1]: the search ended one element early
MaxOfAllButLast(v) ==
    IF Len(v) = 1 THEN v[1]
    ELSE CHOOSE m \in {v[i] : i \in 1..(Len(v) - 1)} :
             \A i \in 1..(Len(v) - 1) : m >= v[i]

\* *std::min_element
MinElement(v) == CHOOSE m \in {v[i] : i \in 1..Len(v)} : \A i \in 1..Len(v) : m <= v[i]

\* *std::max_element
MaxElement(v) == CHOOSE m \in {v[i] : i \in 1..Len(v)} : \A i \in 1..Len(v) : m >= v[i]

\* the count without the + 1
GridCountNoPlusOne(lo, hi, step) ==
    ToInt(RRound(RDiv(FromInt(hi - lo), step)))

\* std::round((max - min) / step) + 1, stored in an int
GridCount(lo, hi, step) ==
    LET r == RRound(RDiv(FromInt(hi - lo), step))
    IN  ToInt(IF IsFinite(r) THEN Rat(r.n + r.d, r.d) ELSE r)

\* the merged X axis of a call
MergedXs(pts, mergeStepFraction) ==
    LET xs == Sort(Xs(pts)) IN mergeClose(xs, estimateMeanStep(xs), mergeStepFraction)

\* the merged Y axis of a call
MergedYs(pts, mergeStepFraction) ==
    LET ys == Sort(Ys(pts)) IN mergeClose(ys, estimateMeanStep(ys), mergeStepFraction)

\* the Results a call can return: one, unless it converts a NaN to int
analyze(pts, toleranceFraction, presenceEpsilonFraction, mergeStepFraction) ==
    IF TooFewSamples(pts) THEN {DefaultResult}
    ELSE
    LET xs == MergedXs(pts, mergeStepFraction)
        ys == MergedYs(pts, mergeStepFraction)
    IN
    IF AxisCollapsed(Len(xs), Len(ys))
    THEN {[DefaultResult EXCEPT !.Nx = Len(xs), !.Ny = Len(ys)]}
    ELSE
    LET sx   == spacingStats(xs)
        sy   == spacingStats(ys)
        dx   == sx[1]
        dy   == sy[1]
        eps  == Stored(RMul(RMin(dx, dy), presenceEpsilonFraction))
        xMin == MinElement(xs)
        xMax == MaxElement(xs)
        yMin == MinElement(ys)
        yMax == MaxElement(ys)
        res  == [regularX |-> IsRegular(sx[2], dx, toleranceFraction),
                 regularY |-> IsRegular(sy[2], dy, toleranceFraction),
                 dx |-> dx, dy |-> dy,
                 Nx |-> 0, Ny |-> 0,
                 xMin |-> xMin, xMax |-> xMax, yMin |-> yMin, yMax |-> yMax,
                 missingPoints |-> CountMissing(pts, xs, ys, eps)]
    IN  {[res EXCEPT !.Nx = nx, !.Ny = ny] :
            nx \in GridCount(xMin, xMax, dx), ny \in GridCount(yMin, yMax, dy)}

----------------------------------------------------------------------------
(* parameters *)

DefaultTolerance == Rat(5, 100)
DefaultPresence == Rat(2, 10)
DefaultMerge == Rat(10, 100)

TolSet == {FromInt(0), DefaultTolerance, Rat(6, 10)}
PresSet == {FromInt(0), DefaultPresence, Rat(3, 2)}
MergeSet == {Rat(-1, 10), FromInt(0), DefaultMerge, FromInt(1)}

----------------------------------------------------------------------------
(* a caller with free input: testGridFinder's main, any samples *)

MaxPoints == 4
MaxCoord == 3

Coords == 0..MaxCoord

\* (x1, y1) is listed before (x2, y2) in the caller's file
Before(p, q) == p[1] < q[1] \/ (p[1] = q[1] /\ p[2] <= q[2])

\* xy.emplace_back(p.coords[1], p.coords[2]);
\* the samples are enumerated in one order for each multiset of samples
AddPoint(x, y) ==
    /\ pc = "input"
    /\ Len(points) < MaxPoints
    /\ points # <<>> => Before(points[Len(points)], <<x, y>>)
    /\ points' = Append(points, <<x, y>>)
    /\ UNCHANGED <<tol, pres, mrg, result, pc, saved, lat, ncalls>>
    /\ UNCHANGED scan

\* res = GridFinder::analyze(pts, t, p, m);
Call(pts, t, p, m) ==
    /\ tol' = t
    /\ pres' = p
    /\ mrg' = m
    /\ result' \in analyze(pts, t, p, m)
    /\ ncalls' = ncalls + 1

\* GridFinder::Result res = GridFinder::analyze(xy, t, p, m);
Analyze(t, p, m) ==
    /\ pc = "input"
    /\ Call(points, t, p, m)
    /\ pc' = "done"
    /\ UNCHANGED <<points, saved, lat>>
    /\ UNCHANGED scan

Init ==
    /\ points = <<>>
    /\ tol = DefaultTolerance
    /\ pres = DefaultPresence
    /\ mrg = DefaultMerge
    /\ result = ZeroedResult
    /\ pc = "input"
    /\ saved = NoCall
    /\ ncalls = 0
    /\ lat = NoLattice
    /\ NoScan

Next ==
    \/ \E x \in Coords, y \in Coords : AddPoint(x, y)
    \/ \E t \in TolSet, p \in PresSet, m \in MergeSet : Analyze(t, p, m)

Spec == Init /\ [][Next]_vars

----------------------------------------------------------------------------
(* properties of one call on free input *)

\* every field of r is zero or false
ZeroResult(r) ==
    /\ r.Nx = 0 /\ r.Ny = 0
    /\ r.dx = FromInt(0) /\ r.dy = FromInt(0)
    /\ r.xMin = 0 /\ r.xMax = 0 /\ r.yMin = 0 /\ r.yMax = 0
    /\ r.missingPoints = 0
    /\ r.regularX = FALSE /\ r.regularY = FALSE

\* the values of the samples on the X axis
XValues == {points[i][1] : i \in 1..Len(points)}

\* the values of the samples on the Y axis
YValues == {points[i][2] : i \in 1..Len(points)}

NonNegative(a) == ~RLess(a, FromInt(0))

\* C1: a call on 0, 1, 2 or 3 samples returns the zeroed default result, whatever
\* the three parameters
C1_FewSamplesZero ==
    (pc = "done" /\ Len(points) < 4) => ZeroResult(result)

\* three samples spanning two X and two Y values, non-default parameters
C1_Witness ==
    /\ pc = "done"
    /\ Len(points) = 3
    /\ Cardinality(XValues) = 2
    /\ Cardinality(YValues) = 2
    /\ tol # DefaultTolerance /\ pres # DefaultPresence /\ mrg # DefaultMerge
    /\ ZeroResult(result)

\* C2: a call on at least 4 samples of which the merged X axis or the merged Y
\* axis has fewer than 2 values returns the zeroed default result, counts included
C2_CollapsedAxisZero ==
    (/\ pc = "done"
     /\ Len(points) >= 4
     /\ \/ Len(MergedXs(points, mrg)) < 2
        \/ Len(MergedYs(points, mrg)) < 2)
    => ZeroResult(result)

\* C6: with non-negative parameters, every returned record has
\* 0 <= missingPoints <= Nx * Ny
C6_MissingWithinGrid ==
    (/\ pc = "done"
     /\ NonNegative(tol) /\ NonNegative(pres) /\ NonNegative(mrg))
    => /\ 0 <= result.missingPoints
       /\ result.missingPoints <= result.Nx * result.Ny

\* a success-path call in which every intersection is missing
C6_Witness ==
    /\ pc = "done"
    /\ NonNegative(tol) /\ NonNegative(pres) /\ NonNegative(mrg)
    /\ result.Nx >= 2 /\ result.Ny >= 3
    /\ result.missingPoints = result.Nx * result.Ny

\* C7: for fixed samples, presenceEpsilonFraction and mergeStepFraction, an axis
\* that is regular at toleranceFraction t1 is regular at every t2 >= t1
C7_ToleranceMonotone ==
    pc = "done" =>
        \A t2 \in TolSet :
            ~RLess(t2, tol) =>
                \A r2 \in analyze(points, t2, pres, mrg) :
                    /\ result.regularX => r2.regularX
                    /\ result.regularY => r2.regularY

\* an X axis irregular at the tolerance of the call and regular at a larger one,
\* beside a Y axis regular at both
C7_Witness ==
    /\ pc = "done"
    /\ ~result.regularX
    /\ result.regularY
    /\ result.Nx >= 2
    /\ \E t2 \in TolSet :
          /\ RLess(tol, t2)
          /\ \A r2 \in analyze(points, t2, pres, mrg) : r2.regularX /\ r2.regularY

\* C9: a call on at least 4 samples whose X values are all identical returns with
\* regularX = false, and one whose Y values are all identical with regularY = false
C9_IdenticalAxisIrregular ==
    (pc = "done" /\ Len(points) >= 4) =>
        /\ Cardinality(XValues) = 1 => result.regularX = FALSE
        /\ Cardinality(YValues) = 1 => result.regularY = FALSE

\* the call returned on four samples in one column, at four different Y
C9_Witness ==
    /\ pc = "done"
    /\ Len(points) >= 4
    /\ Cardinality(XValues) = 1
    /\ Cardinality(YValues) = 4
    /\ result.regularX = FALSE

----------------------------------------------------------------------------
(* a caller whose samples are a rectangular lattice: flatnessScan's main on a
   scan file, which calls analyze with the default parameters *)

MaxCols == 3
MaxShift == 1
MaxNoisy == 1

Steps == {1, 3, 30}
Origins == {<<0, 0>>, <<-7, 5>>}

\* column and row of the k-th sample of the file, counted from 0
ColOf(l, k) == IF l.order = "rows" THEN (k - 1) % l.A ELSE (k - 1) \div l.B
RowOf(l, k) == IF l.order = "rows" THEN (k - 1) \div l.A ELSE (k - 1) % l.B

\* the file of a perfect lattice: every intersection once
LatticePoints(l) ==
    [k \in 1..(l.A * l.B) |->
        <<l.x0 + ColOf(l, k) * l.sx, l.y0 + RowOf(l, k) * l.sy>>]

Lattices ==
    {[kind |-> "lattice", x0 |-> o[1], y0 |-> o[2], sx |-> sx, sy |-> sy,
      A |-> a, B |-> b, order |-> ord, moved |-> {}] :
        o \in Origins, sx \in Steps, sy \in Steps,
        a \in 2..MaxCols, b \in 2..MaxCols, ord \in {"rows", "cols"}}

\* the k-th sample is on neither the first nor the last column or row
Interior(l, k) ==
    /\ 0 < ColOf(l, k) /\ ColOf(l, k) < l.A - 1
    /\ 0 < RowOf(l, k) /\ RowOf(l, k) < l.B - 1

\* v without its k-th element
RemoveAt(v, k) == SubSeq(v, 1, k - 1) \o SubSeq(v, k + 1, Len(v))

\* |e| < mergeStepFraction * step / 2, for the default mergeStepFraction
SmallShift(e, step) ==
    RLess(FromInt(Abs(e)), RDiv(RMul(DefaultMerge, FromInt(step)), FromInt(2)))

InitLattice ==
    /\ lat \in Lattices
    /\ points = LatticePoints(lat)
    /\ tol = DefaultTolerance
    /\ pres = DefaultPresence
    /\ mrg = DefaultMerge
    /\ result = ZeroedResult
    /\ pc = "input"
    /\ saved = NoCall
    /\ ncalls = 0
    /\ NoScan

\* auto grid = GridFinder::analyze(xy);
AnalyzeDefault ==
    /\ pc = "input"
    /\ Call(points, DefaultTolerance, DefaultPresence, DefaultMerge)
    /\ pc' = "done"
    /\ UNCHANGED <<points, saved, lat>>
    /\ UNCHANGED scan

\* the next file is the analysed lattice without one interior sample
RemoveInterior(k) ==
    /\ pc = "done"
    /\ lat.kind = "lattice"
    /\ k \in 1..Len(points)
    /\ Interior(lat, k)
    /\ saved' = ThisCall
    /\ points' = RemoveAt(points, k)
    /\ lat' = [lat EXCEPT !.kind = "removed"]
    /\ pc' = "input"
    /\ UNCHANGED <<tol, pres, mrg, result, ncalls>>
    /\ UNCHANGED scan

\* the next file has the k-th sample of the analysed lattice moved by (ex, ey),
\* each less than mergeStepFraction * step / 2 on its axis
Perturb(k, ex, ey) ==
    /\ \/ pc = "done" /\ lat.kind = "lattice" /\ saved' = ThisCall
       \/ pc = "input" /\ lat.kind = "noisy" /\ saved' = saved
    /\ k \in 1..Len(points)
    /\ k \notin lat.moved
    /\ Cardinality(lat.moved) < MaxNoisy
    /\ <<ex, ey>> # <<0, 0>>
    /\ SmallShift(ex, lat.sx)
    /\ SmallShift(ey, lat.sy)
    /\ points' = [points EXCEPT ![k] = <<points[k][1] + ex, points[k][2] + ey>>]
    /\ lat' = [lat EXCEPT !.kind = "noisy", !.moved = lat.moved \cup {k}]
    /\ pc' = "input"
    /\ UNCHANGED <<tol, pres, mrg, result, ncalls>>
    /\ UNCHANGED scan

NextLattice ==
    \/ AnalyzeDefault
    \/ \E k \in 1..(MaxCols * MaxCols) : RemoveInterior(k)
    \/ \E k \in 1..(MaxCols * MaxCols), ex \in -MaxShift..MaxShift, ey \in -MaxShift..MaxShift :
          Perturb(k, ex, ey)

SpecLattice == InitLattice /\ [][NextLattice]_vars

\* C3: a noise-free A x B lattice (A, B >= 2) with steps sx, sy > 0, every
\* intersection sampled once, analysed with the default parameters, is regular on
\* both axes with dx = sx, dy = sy, Nx = A, Ny = B and no missing point
C3_PerfectLattice ==
    (pc = "done" /\ lat.kind = "lattice") =>
        /\ result.regularX /\ result.regularY
        /\ result.dx = FromInt(lat.sx) /\ result.dy = FromInt(lat.sy)
        /\ result.Nx = lat.A /\ result.Ny = lat.B
        /\ result.missingPoints = 0

\* an analysed 3 x 2 lattice with different steps on the two axes
C3_Witness ==
    /\ pc = "done"
    /\ lat.kind = "lattice"
    /\ lat.A = 3 /\ lat.B = 2
    /\ lat.sx = 30 /\ lat.sy = 3
    /\ result.Nx = 3 /\ result.Ny = 2

\* C4: removing one interior sample of a perfect lattice of at least 3 columns and
\* 3 rows takes missingPoints from 0 to exactly 1 and leaves Nx, Ny, regularX and
\* regularY as they were
C4_OneInteriorMissing ==
    (pc = "done" /\ lat.kind = "removed") =>
        /\ saved.result.missingPoints = 0
        /\ result.missingPoints = 1
        /\ result.Nx = saved.result.Nx /\ result.Ny = saved.result.Ny
        /\ result.regularX = saved.result.regularX
        /\ result.regularY = saved.result.regularY

\* the lattice without its interior sample has been analysed after the full one
C4_Witness ==
    /\ pc = "done"
    /\ lat.kind = "removed"
    /\ Len(points) = lat.A * lat.B - 1
    /\ Len(saved.points) = lat.A * lat.B
    /\ result.missingPoints = 1

\* C5: moving every coordinate of a perfect lattice by less than
\* mergeStepFraction * step / 2 leaves Nx, Ny, regularX and regularY as they were
C5_NoiseTolerated ==
    (pc = "done" /\ lat.kind = "noisy") =>
        /\ result.Nx = saved.result.Nx /\ result.Ny = saved.result.Ny
        /\ result.regularX = saved.result.regularX
        /\ result.regularY = saved.result.regularY

----------------------------------------------------------------------------
(* testGridFinder's main on the scan file of its example: 100 samples on a
   10 x 10 lattice, steps 31.11 and 19.44, coordinates off by less than 0.01.
   One length unit is 0.01 / (MaxNoise + 1), so a noise of at most MaxNoise
   units is a deviation of less than 0.01. *)

ScenarioCols == 10
ScenarioStepX == 3111
ScenarioStepY == 1944
MaxNoise == 1

UnitsPerHundredth == MaxNoise + 1

\* the deviation of the sample at column i, row j, in units: between -MaxNoise
\* and MaxNoise, varying along the columns and rows as the pattern n says
NoiseAt(n, i, j) == ((n[1] * i + n[2] * j + n[3]) % (2 * MaxNoise + 1)) - MaxNoise

NoisePatterns == (0..2) \X (0..2) \X (0..(2 * MaxNoise))

\* the file, row by row
ScenarioPoints(l) ==
    [k \in 1..(ScenarioCols * ScenarioCols) |->
        LET i == (k - 1) % ScenarioCols
            j == (k - 1) \div ScenarioCols
        IN  <<i * ScenarioStepX * UnitsPerHundredth + NoiseAt(l.nx, i, j),
              j * ScenarioStepY * UnitsPerHundredth + NoiseAt(l.ny, i, j)>>]

InitScenario ==
    /\ lat \in {[kind |-> "scenario", nx |-> nx, ny |-> ny] :
                    nx \in NoisePatterns, ny \in NoisePatterns}
    /\ points = ScenarioPoints(lat)
    /\ tol = DefaultTolerance
    /\ pres = DefaultPresence
    /\ mrg = DefaultMerge
    /\ result = ZeroedResult
    /\ pc = "input"
    /\ saved = NoCall
    /\ ncalls = 0
    /\ NoScan

\* GridFinder::Result res = GridFinder::analyze(xy, 0.05, 0.2, 0.10);
NextScenario == AnalyzeDefault

SpecScenario == InitScenario /\ [][NextScenario]_vars

\* C10: the 100 samples of a 10 x 10 lattice with steps 31.11 and 19.44, every
\* coordinate less than 0.01 from its lattice value, analysed with (0.05, 0.2, 0.10),
\* give Nx = 10, Ny = 10, regularX = regularY = true and missingPoints = 0
C10_ScenarioGrid ==
    (pc = "done" /\ lat.kind = "scenario") =>
        /\ result.Nx = 10 /\ result.Ny = 10
        /\ result.regularX /\ result.regularY
        /\ result.missingPoints = 0

\* the analysed file has samples of one lattice column at three different X and
\* samples of one lattice row at three different Y
C10_Witness ==
    /\ pc = "done"
    /\ lat.kind = "scenario"
    /\ Len(points) = 100
    /\ Cardinality({points[k][1] : k \in {1, 11, 21, 31, 41, 51}}) = 3
    /\ Cardinality({points[k][2] : k \in 1..10}) = 3
    /\ result.Nx = 10

----------------------------------------------------------------------------
(* a caller that calls analyze again and again, on the same and on other samples *)

MaxCalls == 4

\* the sample vectors of the caller: two files and what it has of them after
\* reading 0, 1, 2, ... of their lines
CallFiles ==
    {<<<<0, 0>>, <<3, 0>>, <<0, 1>>, <<3, 1>>, <<1, 1>>>>,
     <<<<0, 0>>, <<0, 1>>, <<0, 3>>, <<0, 4>>>>}

CallInputs == UNION {{SubSeq(q, 1, n) : n \in 1..Len(q)} : q \in CallFiles}

CallParams ==
    {<<DefaultTolerance, DefaultPresence, DefaultMerge>>,
     <<Rat(6, 10), FromInt(0), FromInt(1)>>,
     <<FromInt(0), Rat(3, 2), Rat(-1, 10)>>}

InitCalls ==
    /\ points \in CallInputs
    /\ tol = DefaultTolerance
    /\ pres = DefaultPresence
    /\ mrg = DefaultMerge
    /\ result = ZeroedResult
    /\ pc = "input"
    /\ saved = NoCall
    /\ lat = NoLattice
    /\ ncalls = 0
    /\ NoScan

\* one more call, on the vector as it is
AnalyzeWith(par) ==
    /\ ncalls < MaxCalls
    /\ Analyze(par[1], par[2], par[3])

\* the caller keeps the call it has just made: its arguments and its result
Keep ==
    /\ pc = "done"
    /\ saved' = ThisCall
    /\ UNCHANGED <<points, tol, pres, mrg, result, pc, lat, ncalls>>
    /\ UNCHANGED scan

\* the caller fills its vector for the next call, with the same or other samples
NextInput(q) ==
    /\ pc = "done"
    /\ points' = q
    /\ pc' = "input"
    /\ UNCHANGED <<tol, pres, mrg, result, saved, lat, ncalls>>
    /\ UNCHANGED scan

NextCalls ==
    \/ \E par \in CallParams : AnalyzeWith(par)
    \/ Keep
    \/ \E q \in CallInputs : NextInput(q)

SpecCalls == InitCalls /\ [][NextCalls]_vars

\* the last call had the samples and the three parameters of the kept call
SameArguments ==
    /\ saved.called
    /\ saved.points = points
    /\ saved.tol = tol /\ saved.pres = pres /\ saved.mrg = mrg

----------------------------------------------------------------------------
(* a caller whose samples are in the subnormal range: testGridFinder's main on
   a file of coordinates that are small whole multiples of the smallest positive
   double *)

SubnormalMergeSet == {FromInt(-1), Rat(-1, 10), DefaultMerge}

InitSubnormal ==
    /\ points = <<>>
    /\ tol = DefaultTolerance
    /\ pres = DefaultPresence
    /\ mrg = DefaultMerge
    /\ result = ZeroedResult
    /\ pc = "input"
    /\ saved = NoCall
    /\ lat = [kind |-> "subnormal"]
    /\ ncalls = 0
    /\ NoScan

NextSubnormal ==
    \/ \E x \in Coords, y \in Coords : AddPoint(x, y)
    \/ \E t \in TolSet, m \in SubnormalMergeSet : Analyze(t, DefaultPresence, m)

SpecSubnormal == InitSubnormal /\ [][NextSubnormal]_vars

\* the call goes past both early returns
SuccessPath(pts, mergeStepFraction) ==
    /\ ~TooFewSamples(pts)
    /\ ~AxisCollapsed(Len(MergedXs(pts, mergeStepFraction)),
                      Len(MergedYs(pts, mergeStepFraction)))

\* dxSpread / dx, for the merged axis v
SpreadOverMean(v) == LET s == spacingStats(v) IN RDiv(s[2], s[1])

\* (result.xMax - result.xMin) / result.dx, for the merged axis v
SpanOverStep(v) ==
    RDiv(FromInt(MaxElement(v) - MinElement(v)), spacingStats(v)[1])

\* the mean step of an axis is zero: every value of the sorted axis sorted is the
\* same, or, on the success path, the mean gap of the merged axis merged is 0.0
ZeroMeanStep(sorted, merged) ==
    \/ MinElement(sorted) = MaxElement(sorted)
    \/ SuccessPath(points, mrg) /\ spacingStats(merged)[1] = FromInt(0)

\* the call divides by a zero step on the merged axis: 0/0 decides the flag, or
\* a quotient that is no number is converted to the count
DividesByZeroStep(merged) ==
    /\ SuccessPath(points, mrg)
    /\ \/ IsNaN(SpreadOverMean(merged))
       \/ ~IsFinite(SpanOverStep(merged))

\* C11: whatever the samples and the parameters, mergeStepFraction <= 0 included,
\* when the mean step of an axis is zero its regular flag is false and no returned
\* field is computed from a division by that zero step
C11_ZeroMeanStepGuarded ==
    (pc = "done" /\ Len(points) >= 4) =>
        /\ ZeroMeanStep(Sort(Xs(points)), MergedXs(points, mrg)) =>
               /\ result.regularX = FALSE
               /\ ~DividesByZeroStep(MergedXs(points, mrg))
        /\ ZeroMeanStep(Sort(Ys(points)), MergedYs(points, mrg)) =>
               /\ result.regularY = FALSE
               /\ ~DividesByZeroStep(MergedYs(points, mrg))

----------------------------------------------------------------------------
(* a caller that analyses the samples of a file, then the same samples in
   another order, with the same parameters *)

MaxOrderCoord == 2

OrderPoints == (0..MaxOrderCoord) \X (0..MaxOrderCoord)

\* the files of four samples, one order for each multiset of samples
OrderFiles ==
    {q \in [1..4 -> OrderPoints] : \A i \in 1..3 : Before(q[i], q[i + 1])}

InitOrder ==
    /\ points \in OrderFiles
    /\ tol = DefaultTolerance
    /\ pres = DefaultPresence
    /\ mrg = DefaultMerge
    /\ result = ZeroedResult
    /\ pc = "input"
    /\ saved = NoCall
    /\ lat = NoLattice
    /\ ncalls = 0
    /\ NoScan

\* the first call, on the samples in the order of the file
AnalyzeFirst(par) ==
    /\ ncalls = 0
    /\ Analyze(par[1], par[2], par[3])

\* the caller keeps the call and puts the samples in another order: the i-th is
\* now the one that was at perm[i]
Shuffle(perm) ==
    /\ pc = "done"
    /\ ncalls = 1
    /\ saved' = ThisCall
    /\ points' = [i \in 1..Len(points) |-> points[perm[i]]]
    /\ points' # points
    /\ pc' = "input"
    /\ UNCHANGED <<tol, pres, mrg, result, lat, ncalls>>
    /\ UNCHANGED scan

\* the second call, with the parameters of the first
AnalyzeAgain ==
    /\ ncalls = 1
    /\ saved.called
    /\ Analyze(tol, pres, mrg)

NextOrder ==
    \/ \E par \in CallParams : AnalyzeFirst(par)
    \/ \E perm \in Permutations(1..4) : Shuffle(perm)
    \/ AnalyzeAgain

SpecOrder == InitOrder /\ [][NextOrder]_vars

\* C12: a sample sequence and any permutation of it, analysed with the same
\* parameters, give results equal in every field
C12_OrderIndependent ==
    (pc = "done" /\ ncalls = 2) => result = saved.result

\* a success-path call with a missing intersection, made again on the samples in
\* an order that is not the order of the file and not sorted on X
C12_Witness ==
    /\ pc = "done"
    /\ ncalls = 2
    /\ points # saved.points
    /\ points[1][1] > points[2][1]
    /\ result.Nx >= 2 /\ result.Ny >= 2
    /\ result.missingPoints > 0
    /\ result = saved.result

----------------------------------------------------------------------------
(* readPoints (src/Points.cpp).  A line is a sequence of characters, a file a
   sequence of lines.  Numbers are written with digits only. *)

DigitChars == <<"0", "1", "2", "3", "4", "5", "6", "7", "8", "9">>

IsDigit(c) == \E k \in 1..10 : DigitChars[k] = c

DigitValue(c) == (CHOOSE k \in 1..10 : DigitChars[k] = c) - 1

\* the line as it is
KeepCommas(line) == line

\* for (char &c : line) if (c == ',') c = ' ';
CommasToSpaces(line) ==
    [i \in 1..Len(line) |-> IF line[i] = "," THEN " " ELSE line[i]]

\* operator>> skips the white space before the number: the first position from
\* pos on that holds no space, Len(line) + 1 if there is none
RECURSIVE SkipSpaces(_, _)
SkipSpaces(line, pos) ==
    IF pos <= Len(line) /\ line[pos] = " " THEN SkipSpaces(line, pos + 1) ELSE pos

\* operator>> takes the digits from pos on: acc is the value of those taken so
\* far; the value of all of them and the position after the last
RECURSIVE TakeDigits(_, _, _)
TakeDigits(line, pos, acc) ==
    IF pos <= Len(line) /\ IsDigit(line[pos])
    THEN TakeDigits(line, pos + 1, 10 * acc + DigitValue(line[pos]))
    ELSE [val |-> acc, pos |-> pos]

\* ten to the power k
RECURSIVE Pow10(_)
Pow10(k) == IF k = 0 THEN 1 ELSE 10 * Pow10(k - 1)

\* iss >> val, with the stream at pos: whether it succeeds, the value, the
\* position of the stream afterwards. After the digits operator>> takes an e as
\* the start of an exponent; when no digit follows the e what it took is no
\* number and the extraction fails
Extract(line, pos) ==
    LET from == SkipSpaces(line, pos)
        num  == TakeDigits(line, from, 0)
        ex   == TakeDigits(line, num.pos + 1, 0)
    IN  IF num.pos = from
        THEN [ok |-> FALSE, val |-> 0, pos |-> from]
        ELSE IF ~(num.pos <= Len(line) /\ line[num.pos] = "e")
        THEN [ok |-> TRUE, val |-> num.val, pos |-> num.pos]
        ELSE IF ex.pos = num.pos + 1
        THEN [ok |-> FALSE, val |-> 0, pos |-> ex.pos]
        ELSE [ok |-> TRUE, val |-> num.val * Pow10(ex.val), pos |-> ex.pos]

\* while (iss >> val) numbers.push_back(val);
RECURSIVE ReadNumbers(_, _)
ReadNumbers(line, pos) ==
    LET x == Extract(line, pos)
    IN  IF x.ok THEN <<x.val>> \o ReadNumbers(line, x.pos) ELSE <<>>

\* the numbers of one line of the file
ParseLine(line) == ReadNumbers(CommasToSpaces(line), 1)

\* if (numbers.size() < static_cast<size_t>(n))
TooFewNumbers(numbers, k) == Len(numbers) < k

\* every number of the line copied into the point
MakePointOfAll(numbers, k) == numbers

\* Point p(n); p.coords[i] = numbers[i] for i < n
MakePoint(numbers, k) == SubSeq(numbers, 1, k)

\* std::ifstream infile(filename); if (!infile.is_open()) exit(1);
OpenFile ==
    /\ pc = "open"
    /\ IF file.readable
       THEN /\ pc' = "reading"
            /\ UNCHANGED <<messages, status>>
       ELSE /\ messages' = messages \cup {<<"cannot open file">>}
            /\ status' = 1
            /\ pc' = "exited"
    /\ lineNum' = 0
    /\ pointsRead' = <<>>
    /\ UNCHANGED <<points, tol, pres, mrg, result, saved, lat, ncalls>>
    /\ UNCHANGED <<argv, file, ncoord, outname, outfile, fitted>>

\* one turn of while (std::getline(infile, line))
ReadLine ==
    /\ pc = "reading"
    /\ lineNum < Len(file.lines)
    /\ lineNum' = lineNum + 1
    /\ LET numbers == ParseLine(file.lines[lineNum + 1])
       IN  IF TooFewNumbers(numbers, ncoord)
           THEN /\ messages' = messages \cup {<<"skipping line", lineNum + 1>>}
                /\ UNCHANGED pointsRead
           ELSE /\ pointsRead' = Append(pointsRead, MakePoint(numbers, ncoord))
                /\ UNCHANGED messages
    /\ UNCHANGED <<points, tol, pres, mrg, result, pc, saved, lat, ncalls>>
    /\ UNCHANGED <<argv, file, ncoord, outname, outfile, status, fitted>>

\* std::getline fails at the end of the file: return points;
ReturnPoints ==
    /\ pc = "reading"
    /\ lineNum = Len(file.lines)
    /\ pc' = "returned"
    /\ UNCHANGED <<points, tol, pres, mrg, result, saved, lat, ncalls>>
    /\ UNCHANGED scan

----------------------------------------------------------------------------
(* a call of readPoints on a short file of short lines *)

MaxLineLen == 3
MaxLines == 2

LineChars == {"1", "2", " ", ",", "S", "e"}
ReadCoords == {1, 2}

Lines == UNION {[1..k -> LineChars] : k \in 0..MaxLineLen}

ReadFiles == UNION {[1..k -> Lines] : k \in 0..MaxLines}

InitRead ==
    /\ file \in {[readable |-> TRUE, lines |-> f] : f \in ReadFiles} \cup {NoFile}
    /\ ncoord \in ReadCoords
    /\ pc = "open"
    /\ points = <<>>
    /\ tol = DefaultTolerance
    /\ pres = DefaultPresence
    /\ mrg = DefaultMerge
    /\ result = ZeroedResult
    /\ saved = NoCall
    /\ lat = NoLattice
    /\ ncalls = 0
    /\ argv = <<>>
    /\ lineNum = 0
    /\ pointsRead = <<>>
    /\ outname = <<>>
    /\ outfile = NoOutput
    /\ messages = {}
    /\ status = Running
    /\ fitted = FALSE

NextRead ==
    \/ OpenFile
    \/ ReadLine
    \/ ReturnPoints

SpecRead == InitRead /\ [][NextRead]_vars

IsSeparator(c) == c = " " \/ c = ","

\* the positions of the line where a run of characters other than separators begins
TokenStarts(line) ==
    {i \in 1..Len(line) :
        ~IsSeparator(line[i]) /\ (i = 1 \/ IsSeparator(line[i - 1]))}

\* the run of characters other than separators that begins at i
TokenAt(line, i) ==
    LET e == CHOOSE j \in i..Len(line) :
                 /\ \A k \in i..j : ~IsSeparator(line[k])
                 /\ j = Len(line) \/ IsSeparator(line[j + 1])
    IN  SubSeq(line, i, e)

\* the runs of the line, from left to right
Tokens(line) ==
    LET starts == TokenStarts(line)
    IN  [k \in 1..Cardinality(starts) |->
            TokenAt(line, CHOOSE i \in starts :
                              Cardinality({j \in starts : j < i}) = k - 1)]

\* how many digits the token begins with
LeadingDigits(tok) ==
    CHOOSE k \in 0..Len(tok) :
        /\ \A i \in 1..k : IsDigit(tok[i])
        /\ k = Len(tok) \/ ~IsDigit(tok[k + 1])

\* the number the first k characters of the token write
RECURSIVE DecimalValue(_, _)
DecimalValue(tok, k) ==
    IF k = 0 THEN 0 ELSE 10 * DecimalValue(tok, k - 1) + DigitValue(tok[k])

\* how many digits follow the e that follows the leading digits of the token
ExponentDigits(tok) ==
    LET ld == LeadingDigits(tok)
    IN  IF ld >= 1 /\ ld < Len(tok) /\ tok[ld + 1] = "e"
        THEN LeadingDigits(SubSeq(tok, ld + 2, Len(tok)))
        ELSE 0

\* the leading digits of the token are followed by an e and no digit
UnfinishedExponent(tok) ==
    LET ld == LeadingDigits(tok)
    IN  ld >= 1 /\ ld < Len(tok) /\ tok[ld + 1] = "e" /\ ExponentDigits(tok) = 0

\* the length of the longest beginning of the token that writes a number:
\* digits, or digits, e, digits
NumberLength(tok) ==
    IF ExponentDigits(tok) > 0
    THEN LeadingDigits(tok) + 1 + ExponentDigits(tok)
    ELSE LeadingDigits(tok)

\* the number that beginning writes
NumberValue(tok) ==
    LET ld == LeadingDigits(tok)
        ed == ExponentDigits(tok)
    IN  IF ed = 0 THEN DecimalValue(tok, ld)
        ELSE DecimalValue(tok, ld)
                 * Pow10(DecimalValue(SubSeq(tok, ld + 2, Len(tok)), ed))

\* the token begins with a parseable number: digits, not followed by an e that
\* no digit follows
Parseable(tok) == LeadingDigits(tok) >= 1 /\ ~UnfinishedExponent(tok)

\* the parseable numbers the line starts with: the tokens that begin with a
\* parseable number and come after nothing but tokens that are numbers throughout
NumbersAtStart(line) ==
    LET t     == Tokens(line)
        count == Cardinality({k \in 1..Len(t) :
                     /\ Parseable(t[k])
                     /\ \A j \in 1..(k - 1) :
                            Parseable(t[j]) /\ NumberLength(t[j]) = Len(t[j])})
    IN  [k \in 1..count |-> NumberValue(t[k])]

\* the line starts with at least k numbers
Qualifies(line, k) == Len(NumbersAtStart(line)) >= k

\* one point for each qualifying line, in the order of the file
ExpectedPoints(f, k) ==
    LET q == SelectSeq(f, LAMBDA l : Qualifies(l, k))
    IN  [i \in 1..Len(q) |-> SubSeq(NumbersAtStart(q[i]), 1, k)]

----------------------------------------------------------------------------
(* flatnessScan 1.1.0: main (src/flatnessScan.cpp).  A string is a sequence of
   characters.  The plane fit and the contents of the histograms are not
   modelled, only that they are made and which objects reach the output file. *)

DefaultOutName == <<"o", "u", "t", "p", "u", "t", ".", "r", "o", "o", "t">>
DotRoot == <<".", "r", "o", "o", "t">>
DotROOT == <<".", "R", "O", "O", "T">>

\* outname.substr(outname.size() - 5)
LastFive(name) == SubSeq(name, Len(name) - 4, Len(name))

\* the test against ".root" alone
NeedsExtensionLowerOnly(name) ==
    Len(name) < 5 \/ LastFive(name) # DotRoot

\* outname.size() < 5 || (last five != ".root" && last five != ".ROOT")
NeedsExtension(name) ==
    Len(name) < 5 \/ (LastFive(name) # DotRoot /\ LastFive(name) # DotROOT)

\* std::string outname = (argc >= 3) ? argv[2] : "output.root", with ".root"
\* appended when the test says so
OutName(args) ==
    LET name == IF Len(args) >= 2 THEN args[2] ELSE DefaultOutName
    IN  IF NeedsExtension(name) THEN name \o DotRoot ELSE name

\* int n = 4;
ScanCoords == 4

\* what main writes before the flatness map: the version tag, the histograms of
\* n, X, Y, Z and of the residuals, the scatter plot
HistogramObjects ==
    {"FlatnessScanVersion", "hn", "hX", "hY", "hZ", "hDeviations", "g2_xy"}

\* versionTag.Write(); for (auto h : hists) h->Write(); g2->Write(); in this order
FirstWrites == <<"FlatnessScanVersion", "hn", "hX", "hY", "hZ", "hDeviations", "g2_xy">>

\* the writes before the close: hist->Write() for each histogram, g2->Write(),
\* hZ->Write() if (hZ)
LastWrites(out) ==
    <<"hn", "hX", "hY", "hZ", "hDeviations", "g2_xy">>
        \o (IF "hZMap" \in out.objects THEN <<"hZMap">> ELSE <<>>)

\* the close left for after app.Run(), as in version 1.0
LeftOpen(out) == out

\* outfile.Close();
Closed(out) == [out EXCEPT !.open = FALSE, !.log = Append(@, "Close")]

\* xy.emplace_back(p.coords[1], p.coords[2]);
XYPairs(pts) == [i \in 1..Len(pts) |-> <<pts[i][2], pts[i][3]>>]

\* the quotient rounded up instead of to the nearest
BinIndexCeil(c, lo, step) ==
    LET q == RDiv(FromInt(c - lo), step)
    IN  IF ~IsFinite(q) THEN NanInts ELSE {-((-q.n) \div q.d)}

\* static_cast<int>(std::round((p.coords[1] - grid.xMin) / grid.dx)): the values
\* the conversion can give
BinIndex(c, lo, step) == ToInt(RRound(RDiv(FromInt(c - lo), step)))

\* the keys {ix, iy} of bins after the loop over the points
MapBins(pts, grid) ==
    UNION {BinIndex(pts[i][1], grid.xMin, grid.dx)
               \X BinIndex(pts[i][2], grid.yMin, grid.dy) : i \in 1..Len(pts)}

\* the map whenever one axis is regular
MapWantedEither(grid) == grid.regularX \/ grid.regularY

\* if (grid.regularX && grid.regularY)
MapWanted(grid) == grid.regularX /\ grid.regularY

\* the test that never stops the program
NoValidPointsNever(pts) == FALSE

\* if (points.empty())
NoValidPoints(pts) == pts = <<>>

\* the argument check and the output name; then readPoints(filename, n) is called
ParseArgs ==
    /\ pc = "main"
    /\ IF Len(argv) < 1
       THEN /\ messages' = messages \cup {<<"usage">>}
            /\ status' = 1
            /\ pc' = "exited"
            /\ UNCHANGED outname
       ELSE /\ outname' = OutName(argv)
            /\ pc' = "open"
            /\ UNCHANGED <<messages, status>>
    /\ UNCHANGED <<points, tol, pres, mrg, result, saved, lat, ncalls>>
    /\ UNCHANGED <<argv, file, ncoord, lineNum, pointsRead, outfile, fitted>>

\* readPoints has returned: if (points.empty()) return 1;
CheckPoints ==
    /\ pc = "returned"
    /\ IF NoValidPoints(pointsRead)
       THEN /\ messages' = messages \cup {<<"no valid points">>}
            /\ status' = 1
            /\ pc' = "exited"
       ELSE /\ pc' = "fit"
            /\ UNCHANGED <<messages, status>>
    /\ UNCHANGED <<points, tol, pres, mrg, result, saved, lat, ncalls>>
    /\ UNCHANGED <<argv, file, ncoord, lineNum, pointsRead, outname, outfile, fitted>>

\* 3. the plane fit
FitPlane ==
    /\ pc = "fit"
    /\ fitted' = TRUE
    /\ pc' = "output"
    /\ UNCHANGED <<points, tol, pres, mrg, result, saved, lat, ncalls>>
    /\ UNCHANGED <<argv, file, ncoord, lineNum, pointsRead, outname, outfile,
                   messages, status>>

\* 5. and 6. TFile outfile(outname, "RECREATE"); the histograms and the scatter
\* plot are written
WriteHistograms ==
    /\ pc = "output"
    /\ outfile' = [created |-> TRUE, objects |-> HistogramObjects, open |-> TRUE,
                   log |-> <<"RECREATE">> \o FirstWrites, bins |-> {}]
    /\ pc' = "map"
    /\ UNCHANGED <<points, tol, pres, mrg, result, saved, lat, ncalls>>
    /\ UNCHANGED <<argv, file, ncoord, lineNum, pointsRead, outname, messages,
                   status, fitted>>

\* 7. auto grid = GridFinder::analyze(xy); the map if the grid is regular, the
\* warning if not
FlatnessMap ==
    /\ pc = "map"
    /\ points' = XYPairs(pointsRead)
    /\ Call(XYPairs(pointsRead), DefaultTolerance, DefaultPresence, DefaultMerge)
    /\ IF MapWanted(result')
       THEN /\ outfile' = [outfile EXCEPT !.objects = @ \cup {"hZMap"},
                                              !.log = Append(@, "hZMap"),
                                              !.bins = MapBins(XYPairs(pointsRead),
                                                               result')]
            /\ UNCHANGED messages
       ELSE /\ messages' = messages \cup {<<"not on a regular grid">>}
            /\ UNCHANGED outfile
    /\ pc' = "display"
    /\ UNCHANGED <<saved, lat>>
    /\ UNCHANGED <<argv, file, ncoord, lineNum, pointsRead, outname, status, fitted>>

\* 8. the canvases; 9. the histograms, the scatter plot and the map, if there is
\* one, are written once more
Display ==
    /\ pc = "display"
    /\ outfile' = [outfile EXCEPT !.log = @ \o LastWrites(outfile)]
    /\ pc' = "close"
    /\ UNCHANGED <<points, tol, pres, mrg, result, saved, lat, ncalls>>
    /\ UNCHANGED <<argv, file, ncoord, lineNum, pointsRead, outname, messages,
                   status, fitted>>

\* outfile.Close();
CloseFile ==
    /\ pc = "close"
    /\ outfile' = Closed(outfile)
    /\ pc' = "gui"
    /\ UNCHANGED <<points, tol, pres, mrg, result, saved, lat, ncalls>>
    /\ UNCHANGED <<argv, file, ncoord, lineNum, pointsRead, outname, messages,
                   status, fitted>>

\* app.Run(); the event loop is entered
RunGui ==
    /\ pc = "gui"
    /\ pc' = "loop"
    /\ UNCHANGED <<points, tol, pres, mrg, result, saved, lat, ncalls>>
    /\ UNCHANGED scan

\* a canvas is closed: the event loop ends and the program with it, status 0
Finish ==
    /\ pc = "loop"
    /\ status' = 0
    /\ pc' = "exited"
    /\ UNCHANGED <<points, tol, pres, mrg, result, saved, lat, ncalls>>
    /\ UNCHANGED <<argv, file, ncoord, lineNum, pointsRead, outname, outfile,
                   messages, fitted>>

----------------------------------------------------------------------------
(* runs of flatnessScan: with no argument, with an input file, with an input
   file and an output name *)

\* the line "i,x,y,z"
DataLine(i, x, y, z) ==
    <<DigitChars[i + 1], ",", DigitChars[x + 1], ",", DigitChars[y + 1], ",",
      DigitChars[z + 1]>>

\* a scan file: a text header, samples on the columns 0, 1, 3 and the rows 0, 1,
\* a line of two numbers, a sample measured twice
MasterFile ==
    << <<"S">>,
       DataLine(1, 0, 0, 1),
       DataLine(2, 1, 0, 2),
       <<"1", ",", "2">>,
       DataLine(3, 0, 1, 1),
       DataLine(4, 1, 1, 3),
       DataLine(5, 3, 0, 1),
       DataLine(6, 0, 0, 2) >>

\* the lines of f at the positions keep, in the order of f
LinesKept(f, keep) ==
    [k \in 1..Cardinality(keep) |->
        f[CHOOSE i \in keep : Cardinality({j \in keep : j < i}) = k - 1]]

\* the files made of some of the lines of the scan file
ScanFiles == {LinesKept(MasterFile, keep) : keep \in SUBSET (1..Len(MasterFile))}

InputName == <<"i", "n">>

\* ".root" in every letter case
RootCases ==
    {<<".", r, o1, o2, t>> :
        r \in {"r", "R"}, o1 \in {"o", "O"}, o2 \in {"o", "O"}, t \in {"t", "T"}}

\* the output names given: with and without a stem, with ".root" in some letter
\* case, with no extension, with a part of it
OutNames ==
    {stem \o ext : stem \in {<<>>, <<"a">>},
                   ext \in RootCases \cup {<<>>, <<".", "r", "o", "o">>}}

ScanArgs == {<<>>, <<InputName>>} \cup {<<InputName, o>> : o \in OutNames}

InitScan ==
    /\ argv \in ScanArgs
    /\ file \in {[readable |-> TRUE, lines |-> f] : f \in ScanFiles} \cup {NoFile}
    /\ ncoord = ScanCoords
    /\ pc = "main"
    /\ points = <<>>
    /\ tol = DefaultTolerance
    /\ pres = DefaultPresence
    /\ mrg = DefaultMerge
    /\ result = ZeroedResult
    /\ saved = NoCall
    /\ lat = NoLattice
    /\ ncalls = 0
    /\ lineNum = 0
    /\ pointsRead = <<>>
    /\ outname = <<>>
    /\ outfile = NoOutput
    /\ messages = {}
    /\ status = Running
    /\ fitted = FALSE

NextScan ==
    \/ ParseArgs
    \/ OpenFile
    \/ ReadLine
    \/ ReturnPoints
    \/ CheckPoints
    \/ FitPlane
    \/ WriteHistograms
    \/ FlatnessMap
    \/ Display
    \/ CloseFile
    \/ RunGui
    \/ Finish

SpecScan == InitScan /\ [][NextScan]_vars

\* the letter in lower case
LowerCase(c) ==
    IF c = "R" THEN "r" ELSE IF c = "O" THEN "o" ELSE IF c = "T" THEN "t" ELSE c

\* the name ends in ".root", the letters in any case
EndsInRootAnyCase(name) ==
    /\ Len(name) >= 5
    /\ [i \in 1..5 |-> LowerCase(LastFive(name)[i])] = DotRoot

\* C14: the output name is "output.root" with no second argument; otherwise it is
\* the second argument, with ".root" appended if and only if the argument does not
\* end in ".root" in any letter case
C14_OutputName ==
    (pc # "main" /\ argv # <<>>) =>
        outname = IF Len(argv) < 2 THEN DefaultOutName
                  ELSE IF EndsInRootAnyCase(argv[2]) THEN argv[2]
                  ELSE argv[2] \o DotRoot

\* the flatness-map step of main is behind
MapStepDone == pc \in {"display", "close", "gui", "loop"} \/ (pc = "exited" /\ status = 0)

\* C15: the flatness map is made and written if and only if analyze on the (X, Y)
\* pairs returns regularX and regularY both true; in every other case, fewer than
\* 4 points and a collapsed axis included, the warning is printed, no map is made
\* and the histograms and the scatter plot are in the file all the same
C15_MapIffRegular ==
    MapStepDone =>
        /\ result \in analyze(XYPairs(pointsRead), DefaultTolerance,
                               DefaultPresence, DefaultMerge)
        /\ "hZMap" \in outfile.objects <=> (result.regularX /\ result.regularY)
        /\ "hZMap" \notin outfile.objects =>
               /\ <<"not on a regular grid">> \in messages
               /\ HistogramObjects \subseteq outfile.objects
        /\ ~SuccessPath(XYPairs(pointsRead), DefaultMerge) =>
               "hZMap" \notin outfile.objects

\* a file of four samples on one row: the Y axis collapses, the X axis merges to
\* three values; no map, the warning, the histograms written
C15_Witness ==
    /\ pc = "exited"
    /\ status = 0
    /\ Len(pointsRead) = 4
    /\ result.Nx = 3 /\ result.Ny = 1
    /\ "hZMap" \notin outfile.objects
    /\ <<"not on a regular grid">> \in messages
    /\ HistogramObjects \subseteq outfile.objects

\* C16: when the input file yields no valid point the program ends with status 1
\* before the fit and before the output file is created; with no input argument
\* it prints the usage line and ends with status 1 without reading a file
C16_NoPointsNoOutput ==
    /\ (/\ argv # <<>>
        /\ file.readable
        /\ pc \notin {"main", "open", "reading"}
        /\ pointsRead = <<>>)
       => /\ pc \in {"returned", "exited"}
          /\ pc = "exited" => status = 1 /\ <<"no valid points">> \in messages
          /\ ~fitted
          /\ ~outfile.created
    /\ (argv = <<>> /\ pc # "main")
       => /\ pc = "exited"
          /\ status = 1
          /\ messages = {<<"usage">>}
          /\ lineNum = 0
          /\ ~fitted
          /\ ~outfile.created

\* a file of a header and a line of two numbers, read to its end: the program
\* has ended with status 1 and no output file
C16_Witness ==
    /\ argv # <<>>
    /\ file.readable
    /\ Len(file.lines) = 2
    /\ lineNum = 2
    /\ pointsRead = <<>>
    /\ pc = "exited"
    /\ status = 1
    /\ ~outfile.created

----------------------------------------------------------------------------
(* the steps of one call of analyze on free input: merge, statistics, scan *)

\* the values of v at the positions keep, in the order of v
ValuesKept(v, keep) ==
    [k \in 1..Cardinality(keep) |->
        v[CHOOSE i \in keep : Cardinality({j \in keep : j < i}) = k - 1]]

\* the last position before i that is in keep
LastKept(keep, i) == CHOOSE k \in keep : k < i /\ \A j \in keep : j < i => j <= k

\* (max - min) / (n - 1) of the sorted axis v
StepGuessOf(v) == RDiv(FromInt(v[Len(v)] - v[1]), FromInt(Len(v) - 1))

\* merged is what the rule leaves of the sorted axis v: the first value, and each
\* later value exactly when it is more than eps away from the last value left
IsMergeOf(merged, v, eps) ==
    \E keep \in SUBSET (1..Len(v)) :
        /\ 1 \in keep
        /\ \A i \in 2..Len(v) :
               i \in keep <=> RLess(eps, FromInt(Abs(v[i] - v[LastKept(keep, i)])))
        /\ merged = ValuesKept(v, keep)

\* C17: the merge of a sorted axis keeps the first value and keeps each later
\* value if and only if it differs from the last kept value by strictly more than
\* mergeStepFraction * |stepGuess|, stepGuess = (max - min) / (n - 1) of the
\* unmerged sorted axis, the threshold being the same throughout
C17_MergeRule ==
    (pc = "done" /\ Len(points) >= 4) =>
        /\ LET v == Sort(Xs(points))
           IN  IsMergeOf(MergedXs(points, mrg), v, RMul(mrg, RAbs(StepGuessOf(v))))
        /\ LET v == Sort(Ys(points))
           IN  IsMergeOf(MergedYs(points, mrg), v, RMul(mrg, RAbs(StepGuessOf(v))))

\* the gaps between the consecutive values of the merged axis m
Gaps(m) == [i \in 1..(Len(m) - 1) |-> m[i + 1] - m[i]]

\* (mean absolute deviation of the gaps of m from their mean) / (mean gap) < t,
\* for an axis of k gaps whose sum S is positive, multiplied out:
\* sum |k * gap - S| * t.d < t.n * k * S
DeviationBelow(m, t) ==
    LET g == Gaps(m)
        k == Len(g)
        S == m[Len(m)] - m[1]
    IN  Accumulate([i \in 1..k |-> Abs(k * g[i] - S)]) * t.d < t.n * k * S

\* every gap of the merged axis m is the same
Uniform(m) == \A i \in 1..(Len(m) - 1) : m[i + 1] - m[i] = m[2] - m[1]

\* C18: on the success path regularX is true if and only if (mean absolute
\* deviation of the merged X gaps from their mean) / (mean merged X gap) is strictly
\* less than toleranceFraction, and regularY likewise; a uniform axis is irregular
\* at toleranceFraction = 0
C18_RegularIffBelowTolerance ==
    (pc = "done" /\ SuccessPath(points, mrg)) =>
        /\ result.regularX <=> DeviationBelow(MergedXs(points, mrg), tol)
        /\ result.regularY <=> DeviationBelow(MergedYs(points, mrg), tol)
        /\ tol = FromInt(0) => ~result.regularX /\ ~result.regularY

\* a uniform X axis of three values analysed at toleranceFraction 0: irregular
C18_Witness ==
    /\ pc = "done"
    /\ SuccessPath(points, mrg)
    /\ tol = FromInt(0)
    /\ Len(MergedXs(points, mrg)) = 3
    /\ Uniform(MergedXs(points, mrg))
    /\ result.regularX = FALSE

\* C19: on the success path dx is (last merged X - first merged X) / (number of
\* merged X values - 1), and dy likewise: the values the merge dropped do not count
C19_StepIsMeanMergedGap ==
    (pc = "done" /\ SuccessPath(points, mrg)) =>
        /\ LET m == MergedXs(points, mrg)
           IN  result.dx = Rat(m[Len(m)] - m[1], Len(m) - 1)
        /\ LET m == MergedYs(points, mrg)
           IN  result.dy = Rat(m[Len(m)] - m[1], Len(m) - 1)

\* four samples at X = 0, 1, 1, 3 merged at mergeStepFraction 1 to 0, 3: dx = 3
C19_Witness ==
    /\ pc = "done"
    /\ SuccessPath(points, mrg)
    /\ Cardinality(XValues) = 3
    /\ Len(MergedXs(points, mrg)) = 2
    /\ result.dx = FromInt(3)
    /\ Cardinality(YValues) >= 3

\* the sample p is within eps of (x, y) on both axes
InBox(p, x, y, eps) ==
    RLess(FromInt(Abs(p[1] - x)), eps) /\ RLess(FromInt(Abs(p[2] - y)), eps)

\* the values of the sequence m
ValuesOf(m) == {m[i] : i \in 1..Len(m)}

\* C20: on the success path missingPoints is the number of pairs (x, y), x a
\* merged X value and y a merged Y value, with no sample of the input within eps of
\* both, eps = min(dx, dy) * presenceEpsilonFraction, each pair counted once
C20_MissingCountsPairs ==
    (pc = "done" /\ SuccessPath(points, mrg)) =>
        LET eps == RMul(RMin(result.dx, result.dy), pres)
        IN  result.missingPoints =
                Cardinality({xy \in ValuesOf(MergedXs(points, mrg))
                                      \X ValuesOf(MergedYs(points, mrg)) :
                                \A k \in 1..Len(points) :
                                    ~InBox(points[k], xy[1], xy[2], eps)})

----------------------------------------------------------------------------
(* a caller that analyses the samples of a file, then the same X column paired
   with the same Y column in another way, with the same parameters *)

\* the caller keeps the call and pairs the columns again: the i-th sample keeps
\* its X and takes the Y of the sample that was at perm[i]
Repair(perm) ==
    /\ pc = "done"
    /\ ncalls = 1
    /\ saved' = ThisCall
    /\ points' = [i \in 1..Len(points) |-> <<points[i][1], points[perm[i]][2]>>]
    /\ points' # points
    /\ pc' = "input"
    /\ UNCHANGED <<tol, pres, mrg, result, lat, ncalls>>
    /\ UNCHANGED scan

NextPairing ==
    \/ \E par \in CallParams : AnalyzeFirst(par)
    \/ \E perm \in Permutations(1..4) : Repair(perm)
    \/ AnalyzeAgain

SpecPairing == InitOrder /\ [][NextPairing]_vars

\* the results r and s agree on every field but missingPoints
SameButMissing(r, s) == [r EXCEPT !.missingPoints = 0] = [s EXCEPT !.missingPoints = 0]

\* C21: Nx, Ny, dx, dy, regularX, regularY and the four extents depend only on the
\* multiset of X values and the multiset of Y values: the same X column paired
\* with the same Y column in another way gives the same fields, missingPoints
\* apart
C21_MarginalsOnly ==
    (pc = "done" /\ ncalls = 2) => SameButMissing(result, saved.result)

\* two success-path calls on the same columns paired in two ways, with different
\* numbers of missing points
C21_Witness ==
    /\ pc = "done"
    /\ ncalls = 2
    /\ SuccessPath(points, mrg)
    /\ Xs(points) = Xs(saved.points)
    /\ points # saved.points
    /\ result.missingPoints # saved.result.missingPoints
    /\ result.regularX

\* the merge threshold of the sorted axis v
ThresholdOf(v) == RMul(mrg, RAbs(StepGuessOf(v)))

\* the kept value that represents x: the last value of merged that is not above x
Representative(merged, x) ==
    CHOOSE r \in ValuesOf(merged) :
        r <= x /\ \A q \in ValuesOf(merged) : q <= x => q <= r

\* the values of the sorted axis v that the merge dropped
Dropped(v, merged) == ValuesOf(v) \ ValuesOf(merged)

\* a dropped value lies more than eps away from the kept value that represents it
ChainMerged(v, merged, eps) ==
    \E x \in Dropped(v, merged) :
        RLess(eps, FromInt(x - Representative(merged, x)))

\* the sorted axis v has a run of values, each within eps of the one before it,
\* that spans more than eps
Creeping(v, eps) ==
    \E i \in 1..Len(v) : \E j \in (i + 1)..Len(v) :
        /\ \A k \in i..(j - 1) : ~RLess(eps, FromInt(v[k + 1] - v[k]))
        /\ RLess(eps, FromInt(v[j] - v[i]))

\* C22 as stated: the merge chain-merges, a run of values each within the threshold
\* of its sorted neighbour and spanning more than the threshold has a value that
\* is dropped although it lies more than one threshold away from the kept value
\* that represents it
C22_ChainMerges ==
    (pc = "done" /\ Len(points) >= 4) =>
        /\ LET v == Sort(Xs(points))
           IN  Creeping(v, ThresholdOf(v)) =>
                   ChainMerged(v, MergedXs(points, mrg), ThresholdOf(v))
        /\ LET v == Sort(Ys(points))
           IN  Creeping(v, ThresholdOf(v)) =>
                   ChainMerged(v, MergedYs(points, mrg), ThresholdOf(v))

\* C22 as amended: the merge does not chain-merge, every dropped value lies within
\* one merge threshold of the kept value that represents it, whatever the
\* distances between sorted neighbours
C22_NoChainMerge ==
    (pc = "done" /\ Len(points) >= 4) =>
        /\ LET v == Sort(Xs(points))
           IN  ~ChainMerged(v, MergedXs(points, mrg), ThresholdOf(v))
        /\ LET v == Sort(Ys(points))
           IN  ~ChainMerged(v, MergedYs(points, mrg), ThresholdOf(v))

\* the X axis 0, 1, 2, 3 merged at mergeStepFraction 1, threshold 1: every value is
\* within the threshold of its neighbour, 1 and 3 are dropped and 2 is kept
C22_Witness ==
    /\ pc = "done"
    /\ Sort(Xs(points)) = <<0, 1, 2, 3>>
    /\ Creeping(Sort(Xs(points)), ThresholdOf(Sort(Xs(points))))
    /\ MergedXs(points, mrg) = <<0, 2>>
    /\ Dropped(Sort(Xs(points)), MergedXs(points, mrg)) = {1, 3}

----------------------------------------------------------------------------
(* the points of readPoints and what follows the first n numbers of a line *)

\* how many numbers the line starts with, a number being the longest beginning
\* of a token that writes one and what follows it in the token being text
NumbersWritten(line) ==
    LET t == Tokens(line)
    IN  Cardinality({k \in 1..Len(t) :
            /\ LeadingDigits(t[k]) >= 1
            /\ \A j \in 1..(k - 1) :
                   LeadingDigits(t[j]) >= 1 /\ NumberLength(t[j]) = Len(t[j])})

\* the position where the k-th number of the line ends
EndOfNumber(line, k) ==
    LET starts == TokenStarts(line)
        s      == CHOOSE i \in starts : Cardinality({j \in starts : j < i}) = k - 1
    IN  s + NumberLength(TokenAt(line, s)) - 1

\* the line cut after its first k numbers
CutAfter(line, k) == SubSeq(line, 1, EndOfNumber(line, k))

\* the lines of the file that start with at least k numbers, cut after the k-th
CutLines(f, k) ==
    LET q == SelectSeq(f, LAMBDA l : NumbersWritten(l) >= k)
    IN  [i \in 1..Len(q) |-> CutAfter(q[i], k)]

\* C23: every Point returned by readPoints(file, n) has exactly n coordinates, the
\* first n numbers of its line in order; what follows the first n numbers, numbers
\* or text, does not change the Point and does not make the line skipped: the
\* points are those of the lines cut after their n-th number
C23_FirstNumbersOnly ==
    pc = "returned" =>
        /\ \A i \in 1..Len(pointsRead) : Len(pointsRead[i]) = ncoord
        /\ Len(pointsRead) = Len(CutLines(file.lines, ncoord))
        /\ \A i \in 1..Len(pointsRead) :
               LET cut == CutLines(file.lines, ncoord)[i]
               IN  /\ Len(NumbersAtStart(cut)) = ncoord
                   /\ pointsRead[i] = NumbersAtStart(cut)

----------------------------------------------------------------------------
(* the output file of flatnessScan 1.1.0 and the GUI loop *)

\* the program has entered the GUI loop
InGuiLoop == pc = "loop" \/ (pc = "exited" /\ status = 0)

\* the places of the log where the file is closed
Closes(log) == {i \in 1..Len(log) : log[i] = "Close"}

\* the places of the log where an object is written
Writes(log) == {i \in 1..Len(log) : log[i] \notin {"RECREATE", "Close"}}

\* C24: in flatnessScan 1.1.0, on every run that reaches the GUI loop, the writes
\* of the histograms, of the scatter plot and of the flatness map, if there is one,
\* all happen before the output file is closed, the file is closed before app.Run
\* is entered, and no write happens after the close
C24_WritesThenCloseThenGui ==
    /\ \A i \in Closes(outfile.log) : \A j \in Writes(outfile.log) : j < i
    /\ InGuiLoop =>
          /\ ~outfile.open
          /\ Closes(outfile.log) = {Len(outfile.log)}
          /\ \A o \in outfile.objects : \E j \in Writes(outfile.log) : outfile.log[j] = o
          /\ HistogramObjects \subseteq outfile.objects
          /\ MapWanted(result) => "hZMap" \in outfile.objects

\* a run on a regular grid inside the GUI loop: the map written twice, the file
\* closed after the last write
C24_Witness ==
    /\ pc = "loop"
    /\ ~outfile.open
    /\ Cardinality({j \in Writes(outfile.log) : outfile.log[j] = "hZMap"}) = 2
    /\ outfile.log[Len(outfile.log)] = "Close"

----------------------------------------------------------------------------
(* a caller with free input and merge fractions from 0 up to 3; the unit of
   length is one for which the arithmetic is exact, or the smallest double *)

WideMergeSet == {FromInt(0), DefaultMerge, FromInt(1), FromInt(2), Rat(29, 10), FromInt(3)}

InitWideMerge ==
    /\ points = <<>>
    /\ tol = DefaultTolerance
    /\ pres = DefaultPresence
    /\ mrg = DefaultMerge
    /\ result = ZeroedResult
    /\ pc = "input"
    /\ saved = NoCall
    /\ lat \in {NoLattice, [kind |-> "subnormal"]}
    /\ ncalls = 0
    /\ NoScan

NextWideMerge ==
    \/ \E x \in Coords, y \in Coords : AddPoint(x, y)
    \/ \E m \in WideMergeSet : Analyze(DefaultTolerance, DefaultPresence, m)

SpecWideMerge == InitWideMerge /\ [][NextWideMerge]_vars

\* no computed length is rounded
ExactArithmetic == ~UnitIsDenormMin

\* C25: on the success path with mergeStepFraction >= 0 and exact arithmetic the
\* returned Nx,
\* round((xMax - xMin) / dx) + 1, is the number of merged X values, and Ny the
\* number of merged Y values, so both are at least 2 and the recomputation does
\* not change the counts the missing-point scan ran over
C25_CountIsMergedCount ==
    (pc = "done" /\ SuccessPath(points, mrg) /\ NonNegative(mrg) /\ ExactArithmetic) =>
        /\ result.Nx = Len(MergedXs(points, mrg))
        /\ result.Ny = Len(MergedYs(points, mrg))
        /\ result.Nx >= 2 /\ result.Ny >= 2

\* a success-path call whose merge dropped X values: four different X values,
\* two of them kept, Nx = 2
C25_Witness ==
    /\ pc = "done"
    /\ ExactArithmetic
    /\ SuccessPath(points, mrg)
    /\ NonNegative(mrg)
    /\ Cardinality(XValues) = 4
    /\ Len(MergedXs(points, mrg)) = 2
    /\ result.Nx = 2

\* the merge fraction is at least 0 and less than 3
BelowThree(a) == NonNegative(a) /\ RLess(a, FromInt(3))

\* the merged axis merged of the sample values values has fewer than 2 values
\* exactly when the sample values are all equal, and otherwise a mean step above 0
SurvivesMerge(values, merged) ==
    /\ Len(merged) < 2 <=> Cardinality(values) = 1
    /\ Cardinality(values) >= 2 =>
           /\ Len(merged) >= 2
           /\ RLess(FromInt(0), spacingStats(merged)[1])

\* C26 as stated: for at least 4 samples and 0 <= mergeStepFraction < 3 a merged
\* axis has fewer than 2 values if and only if all the sample values on that axis
\* are equal; an axis with two different values keeps at least 2 values and has a
\* strictly positive mean step
C26_TwoValuesSurvive ==
    (pc = "done" /\ Len(points) >= 4 /\ BelowThree(mrg)) =>
        /\ SurvivesMerge(XValues, MergedXs(points, mrg))
        /\ SurvivesMerge(YValues, MergedYs(points, mrg))

\* C26 as amended: the same in exact arithmetic, when neither the step guess nor
\* the merge threshold is rounded
C26_TwoValuesSurviveExact ==
    (pc = "done" /\ Len(points) >= 4 /\ BelowThree(mrg) /\ ExactArithmetic) =>
        /\ SurvivesMerge(XValues, MergedXs(points, mrg))
        /\ SurvivesMerge(YValues, MergedYs(points, mrg))

\* four samples with X = 0, 0, 0, 3 merged at mergeStepFraction 2.9: the threshold
\* is 2.9 and the axis keeps 0 and 3
C26_Witness ==
    /\ pc = "done"
    /\ ExactArithmetic
    /\ mrg = Rat(29, 10)
    /\ Sort(Xs(points)) = <<0, 0, 0, 3>>
    /\ MergedXs(points, mrg) = <<0, 3>>
    /\ Cardinality(YValues) = 1
    /\ result.Nx = 2 /\ result.Ny = 1

\* the largest of the values
Largest(values) == CHOOSE m \in values : \A x \in values : x <= m

\* the smallest of the values
Smallest(values) == CHOOSE m \in values : \A x \in values : m <= x

\* lo is the smallest sample value, and hi is at most the largest and falls short
\* of it by no more than the merge threshold of the sorted axis v
ExtentsOf(lo, hi, values, v) ==
    /\ lo = Smallest(values)
    /\ hi <= Largest(values)
    /\ ~RLess(ThresholdOf(v), FromInt(Largest(values) - hi))

\* C27: on the success path with mergeStepFraction >= 0, xMin is the smallest X
\* of the samples and xMax is at most the largest X and falls short of it by no
\* more than mergeStepFraction * |stepGuess|; the same for yMin and yMax
C27_ExtentsOfMergedAxis ==
    (pc = "done" /\ SuccessPath(points, mrg) /\ NonNegative(mrg)) =>
        /\ ExtentsOf(result.xMin, result.xMax, XValues, Sort(Xs(points)))
        /\ ExtentsOf(result.yMin, result.yMax, YValues, Sort(Ys(points)))

\* the X axis 0, 1, 2, 3 merged at mergeStepFraction 1: the largest X, 3, is
\* dropped and xMax = 2 falls short of it by the threshold, 1
C27_Witness ==
    /\ pc = "done"
    /\ ExactArithmetic
    /\ SuccessPath(points, mrg)
    /\ mrg = FromInt(1)
    /\ Sort(Xs(points)) = <<0, 1, 2, 3>>
    /\ result.xMin = 0 /\ result.xMax = 2

----------------------------------------------------------------------------
(* runs of flatnessScan on scan files whose samples have drifted from the lattice
   lines: four samples on the lines 0 and MapStep of each axis, each up to
   MaxDrift beyond its line *)

MaxDrift == 1
MapStep == 30

\* the number k as it is written in a file
RECURSIVE Digits(_)
Digits(k) ==
    IF k < 10 THEN <<DigitChars[k + 1]>>
    ELSE Digits(k \div 10) \o <<DigitChars[(k % 10) + 1]>>

\* the line "i,x,y,z" of a sample
SampleLine(i, x, y, z) ==
    Digits(i) \o <<",">> \o Digits(x) \o <<",">> \o Digits(y) \o <<",">> \o Digits(z)

\* the coordinates of the samples on one axis
DriftCoords == {c * MapStep + e : c \in 0..1, e \in 0..MaxDrift}

\* the files of four samples, one order for each multiset of samples
DriftSamples ==
    {q \in [1..4 -> DriftCoords \X DriftCoords] : \A i \in 1..3 : Before(q[i], q[i + 1])}

\* the text of the file of the samples q
FileOf(q) == [i \in 1..Len(q) |-> SampleLine(i, q[i][1], q[i][2], i % 3)]

InitMap ==
    /\ argv = <<InputName>>
    /\ file \in {[readable |-> TRUE, lines |-> FileOf(q)] : q \in DriftSamples}
    /\ ncoord = ScanCoords
    /\ pc = "main"
    /\ points = <<>>
    /\ tol = DefaultTolerance
    /\ pres = DefaultPresence
    /\ mrg = DefaultMerge
    /\ result = ZeroedResult
    /\ saved = NoCall
    /\ lat = NoLattice
    /\ ncalls = 0
    /\ lineNum = 0
    /\ pointsRead = <<>>
    /\ outname = <<>>
    /\ outfile = NoOutput
    /\ messages = {}
    /\ status = Running
    /\ fitted = FALSE

SpecMap == InitMap /\ [][NextScan]_vars

\* C28: in flatnessScan 1.1.0, whenever analyze with the default parameters returns
\* regularX = regularY = true, every input point goes to a bin inside the flatness
\* map: 0 <= ix <= Nx - 1 and 0 <= iy <= Ny - 1, no point to an underflow or an
\* overflow bin
C28_BinsInsideMap ==
    (MapStepDone /\ result.regularX /\ result.regularY) =>
        /\ outfile.bins # {}
        /\ \A b \in outfile.bins :
               /\ 0 <= b[1] /\ b[1] <= result.Nx - 1
               /\ 0 <= b[2] /\ b[2] <= result.Ny - 1

\* a map of 2 x 2 bins, all filled, made from samples of which one lies beyond
\* xMax and one beyond yMax
C28_Witness ==
    /\ pc = "loop"
    /\ result.regularX /\ result.regularY
    /\ result.Nx = 2 /\ result.Ny = 2
    /\ \E i \in 1..Len(points) : points[i][1] > result.xMax
    /\ \E i \in 1..Len(points) : points[i][2] > result.yMax
    /\ outfile.bins = (0..1) \X (0..1)

====
